---- MODULE Spec2Model ----
(***************************************************************************)
(* Catalog consistency and hierarchy engine of the e-commerce product API: *)
(* the rating aggregate kept on products, the category hierarchy guards    *)
(* and tree projection, and the pagination of the product query.           *)
(*                                                                         *)
(* Source files (the names under src/ do not all match their content):     *)
(*   src/server/src/models/Review.js          Review model, Product model  *)
(*   src/server/src/middleware/validation.js  Joi schemas, product         *)
(*                                            controller                   *)
(*   src/server/src/controllers/categoryController.js  category controller *)
(* The review controller (addReview, updateReview, deleteReview) is only   *)
(* referenced by src/server/src/routes/reviewRoutes.js; its three handlers *)
(* are modelled from the specification.                                    *)
(***************************************************************************)
EXTENDS Integers, Sequences, FiniteSets, Bags, TLC

VARIABLES
  products,    \* Product collection: _id -> document
  reviews,     \* Review collection: set of documents (product, user, rating)
  categories,  \* Category collection: _id -> document
  nextPid,     \* next fresh product _id
  nextCid,     \* next fresh category _id
  response,    \* the last response sent: request and result
  reqs,        \* concurrent review requests in flight: bag of positions and locals
  tree,        \* getCategoryTree in progress: call stack of buildTree and result
  query        \* getProducts: the request's parameters and the matching products

vars == <<products, reviews, categories, nextPid, nextCid, response, reqs, tree, query>>

----------------------------------------------------------------------------
(* Bounds of the model *)

MaxProducts == 2
MaxCategories == 2
MaxUsers == 2
MaxReviews == 2
MaxStock == 2

(* Program constants *)

MinRating == 1
MaxRating == 5
DefaultPage == 1
DefaultLimit == 10

NULL == 0

Users == 1..MaxUsers
\* the ratings sent: both ends of the schema's range and one inside it
Ratings == {MinRating, MinRating + 1, MaxRating}

----------------------------------------------------------------------------
(* Numbers: a rating is a rational n/d kept in lowest terms, <<n, d>>. *)

RECURSIVE GCD(_, _)
GCD(a, b) == IF b = 0 THEN a ELSE GCD(b, a % b)

Frac(n, d) == LET g == GCD(n, d) IN <<n \div g, d \div g>>

Int2Frac(k) == <<k, 1>>

RECURSIVE SumRatings(_)
SumRatings(S) ==
  IF S = {} THEN 0
  ELSE LET r == CHOOSE x \in S : TRUE IN r.rating + SumRatings(S \ {r})

----------------------------------------------------------------------------
(* Requests name documents by 24-digit hex strings.  A string is modelled  *)
(* by the ObjectId it spells and by the case of its hex letters; casting   *)
(* a string to an ObjectId (findById, findByIdAndUpdate, schema casting)   *)
(* ignores the case, comparing two strings with === does not.              *)

IdString(oid, upper) == [hex |-> oid, upper |-> upper]

\* a JSON null sent where an id string is expected; it casts to null
JsonNull == IdString(NULL, FALSE)

CastObjectId(s) == s.hex

----------------------------------------------------------------------------
(* Responses.  id is the product a review reply is about; the replies of   *)
(* the product and category handlers are recorded without it.              *)

\* error names the kind of failure ("" on success), n the count it reports
Reply(op, id, status, error, n) ==
  [op |-> op, id |-> id, status |-> status, error |-> error, n |-> n]

Resp(op, id, status, n) == Reply(op, id, status, "", n)

NoResponse == Resp("none", NULL, 0, 0)

(* Documents of a request body: a function from the keys sent to values. *)
Has(body, k) == k \in DOMAIN body

Merge(doc, body) ==
  [k \in DOMAIN doc |-> IF k \in DOMAIN body THEN body[k] ELSE doc[k]]

----------------------------------------------------------------------------
(* Review model: unique index, aggregate, hooks *)

ReviewsOf(p) == {r \in reviews : r.product = p}

\* a review collection without the unique index: every insert is accepted
NoIndexMut(coll, doc) == TRUE

\* reviewSchema.index({product: 1, user: 1}, {unique: true})
UniqueIndexAllows(coll, doc) ==
  ~ \E r \in coll : r.product = doc.product /\ r.user = doc.user

\* this.aggregate([{$match: {product}}, {$group: {$avg, $sum: 1}}]) over a
\* review collection: the empty sequence when nothing matches
Aggregate(coll, p) ==
  LET S == {r \in coll : r.product = p} IN
  IF S = {} THEN << >>
  ELSE << [averageRating |-> Frac(SumRatings(S), Cardinality(S)),
           numberOfReviews |-> Cardinality(S)] >>

\* the update run with {upsert: true}: a missing document is inserted
UpsertMut(coll, id, update) ==
  [i \in DOMAIN coll \cup {id} |->
     IF i \in DOMAIN coll
     THEN (IF i = id
           THEN [k \in DOMAIN coll[i] |-> IF k \in DOMAIN update THEN update[k] ELSE coll[i][k]]
           ELSE coll[i])
     ELSE update]

\* Product.findByIdAndUpdate(id, update): no document with that id, no change
FindByIdAndUpdate(coll, id, update) ==
  IF id \in DOMAIN coll
  THEN [coll EXCEPT ![id] = Merge(coll[id], update)]
  ELSE coll

\* The write without its else branch: nothing is written when no review is left
KeepOnEmptyMut(coll, p, stats) ==
  IF Len(stats) > 0
  THEN FindByIdAndUpdate(coll, p, [rating |-> stats[1].averageRating,
                                   numReviews |-> stats[1].numberOfReviews])
  ELSE coll

\* The second half of calculateAverageRating: the write of the statistics
WriteStats(coll, p, stats) ==
  IF Len(stats) > 0
  THEN FindByIdAndUpdate(coll, p, [rating |-> stats[1].averageRating,
                                   numReviews |-> stats[1].numberOfReviews])
  ELSE FindByIdAndUpdate(coll, p, [rating |-> Int2Frac(0), numReviews |-> 0])

\* calculateAverageRating(productId) run to completion against the review
\* collection revs: the product collection it leaves
calculateAverageRating(prods, revs, p) == WriteStats(prods, p, Aggregate(revs, p))

\* post('save') and post('remove') hooks
postSave(prods, revs, doc) == calculateAverageRating(prods, revs, doc.product)

postRemove(prods, revs, doc) == calculateAverageRating(prods, revs, doc.product)

----------------------------------------------------------------------------
(* Product model and product controller *)

\* schema defaults of a new product (stock 0, rating 0, numReviews 0, no images)
ProductDefaults ==
  [category |-> NULL, stock |-> 0, images |-> 0,
   rating |-> Int2Frac(0), numReviews |-> 0]

\* schema validators: stock min 0, rating min 0 max 5
ValidProduct(doc) ==
  /\ doc.stock >= 0
  /\ doc.rating[1] >= 0
  /\ doc.rating[1] <= MaxRating * doc.rating[2]

Others == <<reqs, tree, query>>

createProduct(body) ==
  /\ nextPid <= MaxProducts
  /\ LET cat == IF Has(body, "category") THEN body.category ELSE NULL
         doc == Merge(ProductDefaults, body)
     IN IF cat \notin DOMAIN categories
        THEN /\ response' = Resp("createProduct", NULL, 404, 0)
             /\ UNCHANGED <<products, nextPid>>
        ELSE IF ~ ValidProduct(doc)
        THEN /\ response' = Resp("createProduct", NULL, 500, 0)
             /\ UNCHANGED <<products, nextPid>>
        ELSE /\ products' = [i \in DOMAIN products \cup {nextPid} |->
                               IF i = nextPid THEN doc ELSE products[i]]
             /\ nextPid' = nextPid + 1
             /\ response' = Resp("createProduct", NULL, 201, 0)
  /\ UNCHANGED <<reviews, categories, nextCid, Others>>

updateProduct(id, body) ==
  /\ IF id \notin DOMAIN products
     THEN /\ response' = Resp("updateProduct", NULL, 404, 0)
          /\ UNCHANGED products
     ELSE IF ~ ValidProduct(Merge(products[id], body))
     THEN /\ response' = Resp("updateProduct", NULL, 500, 0)
          /\ UNCHANGED products
     ELSE /\ products' = FindByIdAndUpdate(products, id, body)
          /\ response' = Resp("updateProduct", NULL, 200, 0)
  /\ UNCHANGED <<reviews, categories, nextPid, nextCid, Others>>

\* Images are counted, none carrying a public_id (the local-upload
\* configuration), so the image clean-up loop of deleteProduct does nothing.
deleteProduct(id) ==
  /\ IF id \notin DOMAIN products
     THEN /\ response' = Resp("deleteProduct", NULL, 404, 0)
          /\ UNCHANGED products
     ELSE /\ products' = [i \in DOMAIN products \ {id} |-> products[i]]
          /\ response' = Resp("deleteProduct", NULL, 200, 0)
  /\ UNCHANGED <<reviews, categories, nextPid, nextCid, Others>>

MaxImages == 1

uploadProductImages(id, nfiles) ==
  /\ IF id \notin DOMAIN products
     THEN /\ response' = Resp("uploadProductImages", NULL, 404, 0)
          /\ UNCHANGED products
     ELSE IF nfiles = 0
     THEN /\ response' = Resp("uploadProductImages", NULL, 400, 0)
          /\ UNCHANGED products
     ELSE /\ products[id].images + nfiles <= MaxImages
          /\ products' = [products EXCEPT ![id].images = @ + nfiles]
          /\ response' = Resp("uploadProductImages", NULL, 200, 0)
  /\ UNCHANGED <<reviews, categories, nextPid, nextCid, Others>>

StockOperations == {"add", "subtract", "set"}

\* the subtraction stored as computed, without the clamp at 0
NoClampMut(a, b) == b

Max(a, b) == IF a >= b THEN a ELSE b

NewStock(stock, quantity, operation) ==
  CASE operation = "add" -> stock + quantity
    [] operation = "subtract" -> Max(0, stock - quantity)
    [] operation = "set" -> quantity

updateStock(id, quantity, operation) ==
  /\ IF operation \notin StockOperations
     THEN /\ response' = Resp("updateStock", NULL, 400, 0)
          /\ UNCHANGED products
     ELSE IF id \notin DOMAIN products
     THEN /\ response' = Resp("updateStock", NULL, 404, 0)
          /\ UNCHANGED products
     ELSE LET doc == [products[id] EXCEPT
                        !.stock = NewStock(@, quantity, operation)]
          IN /\ doc.stock <= MaxStock
             /\ IF ~ ValidProduct(doc)
                THEN /\ response' = Resp("updateStock", NULL, 500, 0)
                     /\ UNCHANGED products
                ELSE /\ products' = [products EXCEPT ![id] = doc]
                     /\ response' = Resp("updateStock", NULL, 200, 0)
  /\ UNCHANGED <<reviews, categories, nextPid, nextCid, Others>>

----------------------------------------------------------------------------
(* Review controller, each handler run to completion: the write of the     *)
(* review followed by the model's hook.                                    *)

Review(p, u, r) == [product |-> p, user |-> u, rating |-> r]

addReview(p, u, r) ==
  /\ Cardinality(reviews) < MaxReviews
  /\ LET doc == Review(p, u, r) IN
     IF p \notin DOMAIN products
     THEN /\ response' = Resp("addReview", p, 404, 0)
          /\ UNCHANGED <<products, reviews>>
     ELSE IF ~ UniqueIndexAllows(reviews, doc)
     THEN /\ response' = Resp("addReview", p, 500, 0)
          /\ UNCHANGED <<products, reviews>>
     ELSE /\ reviews' = reviews \cup {doc}
          /\ products' = postSave(products, reviews', doc)
          /\ response' = Resp("addReview", p, 201, 0)
  /\ UNCHANGED <<categories, nextPid, nextCid, Others>>

updateReview(old, r) ==
  /\ old \in reviews
  /\ LET doc == [old EXCEPT !.rating = r] IN
     /\ reviews' = (reviews \ {old}) \cup {doc}
     /\ products' = postSave(products, reviews', doc)
     /\ response' = Resp("updateReview", old.product, 200, 0)
  /\ UNCHANGED <<categories, nextPid, nextCid, Others>>

deleteReview(old) ==
  /\ old \in reviews
  /\ reviews' = reviews \ {old}
  /\ products' = postRemove(products, reviews', old)
  /\ response' = Resp("deleteReview", old.product, 200, 0)
  /\ UNCHANGED <<categories, nextPid, nextCid, Others>>

----------------------------------------------------------------------------
(* Initial states *)

EmptyFcn == [i \in {} |-> NULL]

IdleTree == [pc |-> "idle", cats |-> << >>, stack |-> << >>, result |-> << >>]

IdleQuery == [pc |-> "idle"]

CategoryDoc(parent, active) == [parentCategory |-> parent, isActive |-> active]

\* The store as first connected: no documents.
Init ==
  /\ products = EmptyFcn
  /\ reviews = {}
  /\ categories = EmptyFcn
  /\ nextPid = 1
  /\ nextCid = 1
  /\ response = NoResponse
  /\ reqs = EmptyBag
  /\ tree = IdleTree
  /\ query = IdleQuery

\* The store after one createCategory({name}): one active root category.
InitSeeded ==
  /\ products = EmptyFcn
  /\ reviews = {}
  /\ categories = [i \in {1} |-> CategoryDoc(NULL, TRUE)]
  /\ nextPid = 1
  /\ nextCid = 2
  /\ response = NoResponse
  /\ reqs = EmptyBag
  /\ tree = IdleTree
  /\ query = IdleQuery

----------------------------------------------------------------------------
(* Reviews, one operation after another.  Products are created from bodies *)
(* that name a category only, so that rating and numReviews start at the   *)
(* schema defaults.                                                        *)

PlainBodies == {[category |-> c] : c \in 1..MaxCategories}

NextReviews ==
  \/ \E b \in PlainBodies : createProduct(b)
  \/ \E p \in 1..MaxProducts : deleteProduct(p)
  \/ \E p \in 1..MaxProducts, u \in Users, r \in Ratings : addReview(p, u, r)
  \/ \E old \in reviews, r \in Ratings : updateReview(old, r)
  \/ \E old \in reviews : deleteReview(old)

SpecReviews == InitSeeded /\ [][NextReviews]_vars

\* The mean and the count of the stored reviews of product p
MeanRating(p) ==
  IF ReviewsOf(p) = {} THEN Int2Frac(0)
  ELSE Frac(SumRatings(ReviewsOf(p)), Cardinality(ReviewsOf(p)))

AggregateExact(p) ==
  /\ products[p].rating = MeanRating(p)
  /\ products[p].numReviews = Cardinality(ReviewsOf(p))

\* C1: after any sequence of review create, update and delete operations run
\* one after another, every stored product's rating is the arithmetic mean
\* of the ratings of its stored reviews and its numReviews is their number
\* (0 and 0 when it has none).
C1_AggregateAfterSequentialOps == \A p \in DOMAIN products : AggregateExact(p)

\* A product with two reviews of ratings 1 and 2 (mean 3/2), reached by
\* creates and an update or a delete.
C1_Witness ==
  \E p \in DOMAIN products :
    /\ products[p].numReviews = 2
    /\ products[p].rating = <<3, 2>>
    /\ response.op \in {"updateReview", "addReview"}

----------------------------------------------------------------------------
(* Reviews, requests running concurrently.  A review mutation is three     *)
(* store operations with awaits between them: the write of the review, the *)
(* aggregate read of calculateAverageRating, and its findByIdAndUpdate on  *)
(* the product.  Other requests' operations may run between any two.       *)

MaxReqs == 2

\* The requests in flight are a bag: two of them may be at the same place
\* with the same locals.
Launch(req) == reqs (+) SetToBag({req})

Retire(req) == reqs (-) SetToBag({req})

InFlight == BagToSet(reqs)

\* a request that has written its review and is about to run the hook
Hooked(p) == [pc |-> "aggregate", product |-> p, stats |-> << >>]

ConcUnchanged == <<categories, nextPid, nextCid, tree, query>>

\* Review.create(...): the insert, checked against the unique index
beginAddReview(p, u, r) ==
  /\ BagCardinality(reqs) < MaxReqs
  /\ Cardinality(reviews) < MaxReviews
  /\ p \in DOMAIN products
  /\ LET doc == Review(p, u, r) IN
     IF ~ UniqueIndexAllows(reviews, doc)
     THEN /\ response' = Resp("addReview", p, 500, 0)
          /\ UNCHANGED <<reviews, reqs>>
     ELSE /\ reviews' = reviews \cup {doc}
          /\ reqs' = Launch(Hooked(p))
          /\ UNCHANGED response
  /\ UNCHANGED <<products, ConcUnchanged>>

\* review.rating = r; review.save()
beginUpdateReview(old, r) ==
  /\ BagCardinality(reqs) < MaxReqs
  /\ old \in reviews
  /\ reviews' = (reviews \ {old}) \cup {[old EXCEPT !.rating = r]}
  /\ reqs' = Launch(Hooked(old.product))
  /\ UNCHANGED <<products, response, ConcUnchanged>>

\* review.remove()
beginDeleteReview(old) ==
  /\ BagCardinality(reqs) < MaxReqs
  /\ old \in reviews
  /\ reviews' = reviews \ {old}
  /\ reqs' = Launch(Hooked(old.product))
  /\ UNCHANGED <<products, response, ConcUnchanged>>

\* calculateAverageRating, first await: const stats = await this.aggregate(...)
hookAggregate(req) ==
  /\ req \in InFlight
  /\ req.pc = "aggregate"
  /\ reqs' = Retire(req) (+) SetToBag({[req EXCEPT
                 !.pc = "update", !.stats = Aggregate(reviews, req.product)]})
  /\ UNCHANGED <<products, reviews, response, ConcUnchanged>>

\* calculateAverageRating, second await: findByIdAndUpdate; the handler then
\* responds
hookUpdateProduct(req) ==
  /\ req \in InFlight
  /\ req.pc = "update"
  /\ products' = WriteStats(products, req.product, req.stats)
  /\ reqs' = Retire(req)
  /\ response' = Resp("reviewSaved", req.product, 200, 0)
  /\ UNCHANGED <<reviews, ConcUnchanged>>

\* The store after createCategory and one createProduct({category}).
InitConcurrent ==
  /\ products = [i \in {1} |-> Merge(ProductDefaults, [category |-> 1])]
  /\ reviews = {}
  /\ categories = [i \in {1} |-> CategoryDoc(NULL, TRUE)]
  /\ nextPid = 2
  /\ nextCid = 2
  /\ response = NoResponse
  /\ reqs = EmptyBag
  /\ tree = IdleTree
  /\ query = IdleQuery

EndRatings == {MinRating, MaxRating}

NextConcurrent ==
  \/ \E p \in DOMAIN products, u \in Users, r \in EndRatings : beginAddReview(p, u, r)
  \/ \E old \in reviews, r \in EndRatings : beginUpdateReview(old, r)
  \/ \E old \in reviews : beginDeleteReview(old)
  \/ \E req \in InFlight : hookAggregate(req)
  \/ \E req \in InFlight : hookUpdateProduct(req)

SpecConcurrent == InitConcurrent /\ [][NextConcurrent]_vars

\* C2: under concurrent review mutations a stale aggregate is only
\* transient: whenever no review operation is in flight, every product's
\* rating and numReviews are the mean and count of its stored reviews.
C2_SettledAggregateExact ==
  (reqs = EmptyBag) => \A p \in DOMAIN products : AggregateExact(p)

----------------------------------------------------------------------------
(* Duplicate reviews: one user sends creates for the same products, again  *)
(* and again, while the hooks of the earlier creates are still running.    *)

\* The store after createCategory and MaxProducts createProduct({category}).
InitDuplicate ==
  /\ products = [i \in 1..MaxProducts |-> Merge(ProductDefaults, [category |-> 1])]
  /\ reviews = {}
  /\ categories = [i \in {1} |-> CategoryDoc(NULL, TRUE)]
  /\ nextPid = MaxProducts + 1
  /\ nextCid = 2
  /\ response = NoResponse
  /\ reqs = EmptyBag
  /\ tree = IdleTree
  /\ query = IdleQuery

NextDuplicate ==
  \/ \E p \in DOMAIN products, r \in Ratings : beginAddReview(p, 1, r)
  \/ \E req \in InFlight : hookAggregate(req)
  \/ \E req \in InFlight : hookUpdateProduct(req)

SpecDuplicate == InitDuplicate /\ [][NextDuplicate]_vars

OnePerPair ==
  \A a \in reviews, b \in reviews :
    (a.product = b.product /\ a.user = b.user) => a = b

\* a create for a pair that already has a review: an error reply, and no
\* review and no product changed
DuplicateFails ==
  \A p \in DOMAIN products, r \in Ratings :
    (beginAddReview(p, 1, r) /\ (\E old \in reviews : old.product = p /\ old.user = 1))
      => /\ response'.op = "addReview"
         /\ response'.status >= 400
         /\ reviews' = reviews
         /\ products' = products
         /\ reqs' = reqs

\* C11: at most one review exists per (product, user) pair in every
\* reachable state; a create for a pair that already has a review fails with
\* an error, stores no review and changes no product, also while the first
\* create's hook is still running; once the hooks have finished, the
\* product's rating and numReviews are those of the first review alone.
C11_OneReviewPerPair ==
  /\ []OnePerPair
  /\ [][DuplicateFails]_vars
  /\ []((reqs = EmptyBag) => \A p \in DOMAIN products : AggregateExact(p))

\* The second create was refused while the first create's hook had not yet
\* written the product.
C11_Witness ==
  /\ response.op = "addReview"
  /\ response.status = 500
  /\ reqs # EmptyBag
  /\ \E old \in reviews : old.product = response.id /\ old.user = 1
  /\ products[response.id].numReviews = 0

----------------------------------------------------------------------------
(* Products, one operation after another, with request bodies that may     *)
(* carry any schema path.  The product routes apply no validation          *)
(* middleware (productRoutes.js), so a body reaches the model as sent.     *)

EmptyBody == [k \in {} |-> NULL]

\* an optional key of a body: o is << >> (not sent) or <<value>>
Opt(k, o) == IF o = << >> THEN EmptyBody ELSE (k :> o[1])

Options(S) == {<< >>} \cup {<<v>> : v \in S}

SentRating == 4
SentNumReviews == 3

Bodies ==
  { Opt("category", c) @@ Opt("stock", s) @@ Opt("rating", r) @@ Opt("numReviews", n) :
      c \in Options({1}),
      s \in Options({1}),
      r \in Options({Int2Frac(SentRating), Int2Frac(MaxRating + 1)}),
      n \in Options({SentNumReviews}) }

NextProducts ==
  \/ \E b \in Bodies : createProduct(b)
  \/ \E p \in 1..MaxProducts, b \in Bodies : updateProduct(p, b)
  \/ \E p \in 1..MaxProducts, n \in 0..1 : uploadProductImages(p, n)
  \/ \E p \in 1..MaxProducts, q \in {-1, 1, MaxStock},
        o \in StockOperations \cup {"multiply"} : updateStock(p, q, o)
  \/ \E p \in 1..MaxProducts, r \in EndRatings : addReview(p, 1, r)
  \/ \E old \in reviews : deleteReview(old)

SpecProducts == InitSeeded /\ [][NextProducts]_vars

\* C3: rating and numReviews are changed only by the aggregator: no product
\* produced by createProduct, updateProduct, updateStock or
\* uploadProductImages has a rating or numReviews other than the mean and
\* count of its reviews.
C3_OnlyAggregatorWritesRating ==
  response.op \in {"createProduct", "updateProduct", "updateStock", "uploadProductImages"}
    => \A p \in DOMAIN products : AggregateExact(p)

----------------------------------------------------------------------------
(* Category controller *)

\* schema default of a new category: active, no parent
CategoryDefaults == CategoryDoc(NULL, TRUE)

\* the document paths a category body sets, its id strings cast to ObjectIds
CastCategoryBody(body) ==
  [k \in DOMAIN body |->
     IF k = "parentCategory" THEN CastObjectId(body[k]) ELSE body[k]]

CatUnchanged == <<products, reviews, nextPid, reqs, tree, query>>

\* if (req.body.parentCategory): the key is sent and is not null
SendsParent(body) == Has(body, "parentCategory") /\ body.parentCategory # JsonNull

createCategory(body) ==
  /\ nextCid <= MaxCategories
  /\ IF SendsParent(body) /\ CastObjectId(body.parentCategory) \notin DOMAIN categories
     THEN /\ response' = Reply("createCategory", NULL, 404, "ParentNotFound", 0)
          /\ UNCHANGED <<categories, nextCid>>
     ELSE /\ categories' = [i \in DOMAIN categories \cup {nextCid} |->
                              IF i = nextCid
                              THEN Merge(CategoryDefaults, CastCategoryBody(body))
                              ELSE categories[i]]
          /\ nextCid' = nextCid + 1
          /\ response' = Resp("createCategory", NULL, 201, 0)
  /\ UNCHANGED CatUnchanged

\* req.body.parentCategory === req.params.id compares the two strings
SelfParentRequest(id, body) == body.parentCategory = id

updateCategory(id, body) ==
  /\ LET cid == CastObjectId(id) IN
     IF cid \notin DOMAIN categories
     THEN /\ response' = Reply("updateCategory", NULL, 404, "NotFound", 0)
          /\ UNCHANGED categories
     ELSE IF SendsParent(body) /\ SelfParentRequest(id, body)
     THEN /\ response' = Reply("updateCategory", NULL, 400, "OwnParent", 0)
          /\ UNCHANGED categories
     ELSE IF SendsParent(body) /\ CastObjectId(body.parentCategory) \notin DOMAIN categories
     THEN /\ response' = Reply("updateCategory", NULL, 404, "ParentNotFound", 0)
          /\ UNCHANGED categories
     ELSE /\ categories' = FindByIdAndUpdate(categories, cid, CastCategoryBody(body))
          /\ response' = Resp("updateCategory", NULL, 200, 0)
  /\ UNCHANGED <<nextCid, CatUnchanged>>

\* Product.countDocuments({category}) and Category.countDocuments({parentCategory})
productCount(cid) == Cardinality({p \in DOMAIN products : products[p].category = cid})

subcategoryCount(cid) ==
  Cardinality({c \in DOMAIN categories : categories[c].parentCategory = cid})

\* deleteCategory without its subcategory guard
DeleteNoSubcheckMut(cid) ==
  IF productCount(cid) > 0
  THEN [reply |-> Reply("deleteCategory", NULL, 400, "HasProducts", productCount(cid)),
        cats |-> categories]
  ELSE [reply |-> Resp("deleteCategory", NULL, 200, 0),
        cats |-> [i \in DOMAIN categories \ {cid} |-> categories[i]]]

\* the outcome of deleteCategory on the existing category cid: the reply and
\* the category collection it leaves
DeleteOutcome(cid) ==
  IF productCount(cid) > 0
  THEN [reply |-> Reply("deleteCategory", NULL, 400, "HasProducts", productCount(cid)),
        cats |-> categories]
  ELSE IF subcategoryCount(cid) > 0
  THEN [reply |-> Reply("deleteCategory", NULL, 400, "HasSubcategories",
                        subcategoryCount(cid)),
        cats |-> categories]
  ELSE [reply |-> Resp("deleteCategory", NULL, 200, 0),
        cats |-> [i \in DOMAIN categories \ {cid} |-> categories[i]]]

deleteCategory(id) ==
  /\ LET cid == CastObjectId(id) IN
     IF cid \notin DOMAIN categories
     THEN /\ response' = Reply("deleteCategory", NULL, 404, "NotFound", 0)
          /\ UNCHANGED categories
     ELSE /\ response' = DeleteOutcome(cid).reply
          /\ categories' = DeleteOutcome(cid).cats
  /\ UNCHANGED <<nextCid, CatUnchanged>>

----------------------------------------------------------------------------
(* Categories and the products that reference them, one operation after    *)
(* another, from the empty store.                                          *)

CategoryIds == 1..MaxCategories

\* the id in the path is sent in lower case, an id in the body in either
PathIds == {IdString(c, FALSE) : c \in CategoryIds}

IdStrings == {IdString(c, u) : c \in CategoryIds, u \in BOOLEAN}

\* the bodies sent: parentCategory not sent, null, or an id string
CategoryBodies ==
  { Opt("parentCategory", p) : p \in Options({JsonNull} \cup IdStrings) }

Next ==
  \/ \E b \in CategoryBodies : createCategory(b)
  \/ \E id \in PathIds, b \in CategoryBodies : updateCategory(id, b)
  \/ \E id \in PathIds : deleteCategory(id)
  \/ \E b \in PlainBodies : createProduct(b)
  \/ \E p \in 1..MaxProducts, b \in PlainBodies : updateProduct(p, b)

Spec == Init /\ [][Next]_vars

\* The same operations with every id string sent in lower case, the form in
\* which responses print an ObjectId.
LowerBodies == {b \in CategoryBodies : Has(b, "parentCategory") => ~ b.parentCategory.upper}

NextLowerCase ==
  \/ \E b \in LowerBodies : createCategory(b)
  \/ \E id \in PathIds, b \in LowerBodies : updateCategory(id, b)
  \/ \E id \in PathIds : deleteCategory(id)
  \/ \E b \in PlainBodies : createProduct(b)
  \/ \E p \in 1..MaxProducts, b \in PlainBodies : updateProduct(p, b)

SpecLowerCase == Init /\ [][NextLowerCase]_vars

\* the numbers of products and of categories that reference category cid
Dependents(cid) ==
  [products |-> Cardinality({p \in DOMAIN products : products[p].category = cid}),
   subcategories |-> Cardinality({c \in DOMAIN categories :
                                    categories[c].parentCategory = cid})]

DeletePost(cid) ==
  LET N == Dependents(cid) IN
  /\ (cid \notin DOMAIN categories') <=> (N.products = 0 /\ N.subcategories = 0)
  /\ (N.products = 0 /\ N.subcategories = 0) =>
       /\ response'.status = 200
       /\ categories' = [c \in DOMAIN categories \ {cid} |-> categories[c]]
  /\ (N.products > 0 \/ N.subcategories > 0) =>
       /\ response'.status = 400
       /\ response'.error \in {"HasProducts", "HasSubcategories"}
       /\ response'.error = "HasProducts" =>
            (N.products > 0 /\ response'.n = N.products)
       /\ response'.error = "HasSubcategories" =>
            (N.subcategories > 0 /\ response'.n = N.subcategories)
       /\ categories' = categories
  /\ products' = products
  /\ reviews' = reviews

\* C4: deleteCategory on an existing category removes it if and only if no
\* product has it as category and no category has it as parentCategory;
\* with N > 0 dependents of a kind it replies 400 with a message naming N
\* and leaves the category and every other document unchanged.
C4_DeleteCategoryGuard ==
  [][\A id \in PathIds :
       (deleteCategory(id) /\ CastObjectId(id) \in DOMAIN categories)
         => DeletePost(CastObjectId(id))]_vars

\* A delete refused because two products reference the category.
C4_Witness ==
  /\ response.op = "deleteCategory"
  /\ response.status = 400
  /\ response.error = "HasProducts"
  /\ response.n = 2
  /\ \E c \in DOMAIN categories : Dependents(c).products = 2

\* C5: updateCategory(id, fields) whose parentCategory names the category
\* itself replies 400 and leaves the category as it was, whatever other
\* fields the request sends.
C5_SelfParentRejected ==
  [][\A id \in PathIds, b \in CategoryBodies :
       (/\ updateCategory(id, b)
        /\ CastObjectId(id) \in DOMAIN categories
        /\ SendsParent(b)
        /\ CastObjectId(b.parentCategory) = CastObjectId(id))
         => (response'.status = 400 /\ categories' = categories)]_vars

\* the categories reached from c by following parentCategory one or more times
RECURSIVE AncestorsFrom(_, _)
AncestorsFrom(c, seen) ==
  IF c \notin DOMAIN categories \/ categories[c].parentCategory = NULL
     \/ categories[c].parentCategory \in seen
  THEN seen
  ELSE AncestorsFrom(categories[c].parentCategory,
                     seen \cup {categories[c].parentCategory})

Ancestors(c) == AncestorsFrom(c, {})

\* C6: in every state reached by createCategory, updateCategory and
\* deleteCategory the parentCategory relation is a forest: following parent
\* references from a category never returns to it, and no category is its
\* own parent.
C6_ParentRelationIsForest == \A c \in DOMAIN categories : c \notin Ancestors(c)

----------------------------------------------------------------------------
(* getCategoryTree.  buildTree is a recursive closure over the categories  *)
(* loaded by Category.find({isActive: true}); its recursion is modelled by *)
(* an explicit call stack, one frame per call: the categories the filter   *)
(* kept and still to be mapped (todo) and the nodes already built (done).  *)

MaxTreeCats == 3

\* The engine's call stack is finite; a recursion deeper than this throws a
\* RangeError, which the handler's catch turns into an error reply.  A
\* recursion that enters no category twice stays below it.
StackLimit == MaxTreeCats + 2

\* the loaded documents, in store order
Loaded(cats) ==
  LET ids == {c \in DOMAIN cats : cats[c].isActive}
      RECURSIVE InOrder(_)
      InOrder(S) ==
        IF S = {} THEN << >>
        ELSE LET m == CHOOSE x \in S : \A y \in S : x <= y
             IN <<[_id |-> m, parentCategory |-> cats[m].parentCategory]>>
                  \o InOrder(S \ {m})
  IN InOrder(ids)

\* the filter matching a category's own _id instead of its parentCategory
ChildOfOwnIdMut(category, parentId) ==
  IF parentId = NULL
  THEN category.parentCategory = NULL
  ELSE category._id = parentId

\* the filter keeping every category at the top level
ChildOfAnyRootMut(category, parentId) ==
  IF parentId = NULL
  THEN TRUE
  ELSE category.parentCategory # NULL /\ category.parentCategory = parentId

\* the filter callback of buildTree
ChildOf(category, parentId) ==
  IF parentId = NULL
  THEN category.parentCategory = NULL
  ELSE category.parentCategory # NULL /\ category.parentCategory = parentId

\* a call buildTree(parentId): its frame after the filter
Frame(loaded, parentId) ==
  [parent |-> parentId,
   todo |-> SelectSeq(loaded, LAMBDA c : ChildOf(c, parentId)),
   done |-> << >>]

Node(category, children) == [id |-> category._id, children |-> children]

Top == tree.stack[Len(tree.stack)]

TreeUnchanged == <<products, reviews, categories, nextPid, nextCid, reqs, query>>

\* const categories = await Category.find({isActive: true}); buildTree()
treeLoad ==
  /\ tree.pc = "idle"
  /\ tree' = [pc |-> "building", cats |-> Loaded(categories),
              stack |-> <<Frame(Loaded(categories), NULL)>>, result |-> << >>]
  /\ UNCHANGED <<response, TreeUnchanged>>

\* the map callback reaches children: buildTree(category._id)
treeCall ==
  /\ tree.pc = "building"
  /\ Top.todo # << >>
  /\ IF Len(tree.stack) >= StackLimit
     THEN /\ tree' = [tree EXCEPT !.pc = "error", !.stack = << >>]
          /\ response' = Reply("getCategoryTree", NULL, 500, "RangeError", 0)
     ELSE /\ tree' = [tree EXCEPT
                        !.stack = Append(@, Frame(tree.cats, Head(Top.todo)._id))]
          /\ UNCHANGED response
  /\ UNCHANGED TreeUnchanged

\* a call returns its nodes: to the map callback of its caller, or as the tree
treeReturn ==
  /\ tree.pc = "building"
  /\ Top.todo = << >>
  /\ LET n == Len(tree.stack) IN
     IF n = 1
     THEN /\ tree' = [tree EXCEPT !.pc = "done", !.stack = << >>, !.result = Top.done]
          /\ response' = Resp("getCategoryTree", NULL, 200, 0)
     ELSE LET caller == tree.stack[n - 1] IN
          /\ tree' = [tree EXCEPT !.stack =
                        [SubSeq(@, 1, n - 1) EXCEPT ![n - 1] =
                           [caller EXCEPT
                              !.todo = Tail(@),
                              !.done = Append(@, Node(Head(caller.todo), Top.done))]]]
          /\ UNCHANGED response
  /\ UNCHANGED TreeUnchanged

\* The stored collections the tree is built over: every parent function over
\* the stored categories, each reachable by createCategory and updateCategory
\* (updateCategory checks only that the parent exists).
TreeCollections ==
  UNION { [1..n -> [parentCategory : 0..n, isActive : BOOLEAN]] : n \in 0..MaxTreeCats }

InitTree ==
  /\ products = EmptyFcn
  /\ reviews = {}
  /\ categories \in TreeCollections
  /\ nextPid = 1
  /\ nextCid = Cardinality(DOMAIN categories) + 1
  /\ response = NoResponse
  /\ reqs = EmptyBag
  /\ tree = IdleTree
  /\ query = IdleQuery

NextTree == treeLoad \/ treeCall \/ treeReturn

\* The handler runs to completion once started: no step of it waits on
\* another request.
SpecTree == InitTree /\ [][NextTree]_vars /\ WF_vars(NextTree)

----------------------------------------------------------------------------
(* What the tree should hold, computed from the stored categories *)

Active == {c \in DOMAIN categories : categories[c].isActive}

ActiveRoots == {c \in Active : categories[c].parentCategory = NULL}

ActiveChildren(c) == {d \in Active : categories[d].parentCategory = c}

RECURSIVE ReachFrom(_, _)
ReachFrom(R, k) ==
  IF k = 0 THEN R
  ELSE ReachFrom(R \cup UNION {ActiveChildren(c) : c \in R}, k - 1)

\* the active categories reachable from a root through active ancestors
ReachableFromRoots == ReachFrom(ActiveRoots, Cardinality(DOMAIN categories))

Range(seq) == {seq[i] : i \in 1..Len(seq)}

RECURSIVE FlattenForest(_)
FlattenForest(nodes) ==
  IF nodes = << >> THEN << >>
  ELSE <<Head(nodes).id>> \o FlattenForest(Head(nodes).children)
         \o FlattenForest(Tail(nodes))

RECURSIVE AllNodes(_)
AllNodes(nodes) ==
  IF nodes = << >> THEN {}
  ELSE {Head(nodes)} \cup AllNodes(Head(nodes).children) \cup AllNodes(Tail(nodes))

ChildIds(nodes) == {nodes[i].id : i \in 1..Len(nodes)}

NoDuplicates(seq) == \A i, j \in 1..Len(seq) : seq[i] = seq[j] => i = j

\* C7: the tree's top-level nodes are exactly the active categories with no
\* parent, each node's children are exactly the active categories whose
\* parentCategory is that node, and every active category reachable from a
\* root through active ancestors appears exactly once.
C7_TreeIsParentPartition ==
  tree.pc = "done" =>
    /\ ChildIds(tree.result) = ActiveRoots
    /\ \A node \in AllNodes(tree.result) :
         ChildIds(node.children) = ActiveChildren(node.id)
    /\ NoDuplicates(FlattenForest(tree.result))
    /\ Range(FlattenForest(tree.result)) = ReachableFromRoots

\* The chain A, B (parent A), C (parent B): one root, one child, one grandchild.
C7_Witness ==
  /\ tree.pc = "done"
  /\ tree.result = <<[id |-> 1, children |->
                       <<[id |-> 2, children |->
                           <<[id |-> 3, children |-> << >>]>>]>>]>>

\* C8: getCategoryTree terminates on every stored set of categories, cyclic
\* parent references included, without an error, and the result holds the
\* categories reachable from a null-parent root and no others.
C8_TreeTerminates ==
  (tree.pc = "building") ~>
    (tree.pc = "done" /\ Range(FlattenForest(tree.result)) = ReachableFromRoots)

\* Built over a root and a two-cycle (2's parent is 3, 3's parent is 2): the
\* cycle members are absent.
C8_Witness ==
  /\ tree.pc = "done"
  /\ DOMAIN categories = {1, 2, 3}
  /\ categories[1].parentCategory = NULL
  /\ categories[2].parentCategory = 3
  /\ categories[3].parentCategory = 2
  /\ Active = {1, 2, 3}
  /\ tree.result = <<[id |-> 1, children |-> << >>]>>

----------------------------------------------------------------------------
(* getProducts: pagination of the product query.  The filters and the      *)
(* search are summarised by the products they select: the sorted list of   *)
(* the products matching both has positions 1..matches; filterOnly more    *)
(* products match the field filters but not the search.                    *)

MaxMatches == 11
MaxParam == 3

\* A query-string parameter: not sent, or a string that is an integer
\* ("12", "-1", "0"), an integer followed by other characters ("2abc"), or
\* no number at all ("abc").
Absent == [kind |-> "absent", value |-> 0]
Digits(k) == [kind |-> "digits", value |-> k]
Prefixed(k) == [kind |-> "prefixed", value |-> k]
Junk == [kind |-> "junk", value |-> 0]

NaN == [nan |-> TRUE, value |-> 0]

\* parseInt(param, 10): the leading integer of the string, else NaN
parseInt(param) ==
  IF param.kind \in {"digits", "prefixed"}
  THEN [nan |-> FALSE, value |-> param.value]
  ELSE NaN

\* x || dflt on a number: NaN and 0 are falsy
OrDefault(x, dflt) == IF x.nan \/ x.value = 0 THEN dflt ELSE x.value

Min(a, b) == IF a <= b THEN a ELSE b

Abs(a) == IF a < 0 THEN -a ELSE a

\* Product.countDocuments(query): the query's conditions (field filters and
\* search) are merged into the count
countDocuments(q) == q.matches

\* query.skip(startIndex).limit(limit) over the sorted matches.  The driver
\* sends a negative limit as its absolute value (single batch).
SkipLimit(q, startIndex, limit) ==
  LET from == startIndex + 1
      to == Min(q.matches, startIndex + Abs(limit))
  IN [i \in 1..Max(0, to - from + 1) |-> from + i - 1]

PageLink(page, limit) == [page |-> page, limit |-> limit]

\* the pagination object: next and prev, each present (one element) or not
Pagination(page, limit, startIndex, endIndex, total) ==
  [next |-> IF endIndex < total THEN <<PageLink(page + 1, limit)>> ELSE << >>,
   prev |-> IF startIndex > 0 THEN <<PageLink(page - 1, limit)>> ELSE << >>]

QueryUnchanged == <<products, reviews, categories, nextPid, nextCid, reqs, tree>>

getProducts ==
  /\ query.pc = "request"
  /\ LET page == OrDefault(parseInt(query.page), DefaultPage)
         limit == OrDefault(parseInt(query.limit), DefaultLimit)
         startIndex == (page - 1) * limit
         endIndex == page * limit
         total == countDocuments(query)
     IN IF startIndex < 0
        \* the store rejects a negative skip; the catch passes the error on
        THEN /\ query' = [query EXCEPT !.pc = "done", !.page = page, !.limit = limit,
                                       !.startIndex = startIndex, !.status = 500]
             /\ response' = Reply("getProducts", NULL, 500, "MongoError", 0)
        ELSE /\ query' = [query EXCEPT
                            !.pc = "done", !.page = page, !.limit = limit,
                            !.startIndex = startIndex, !.status = 200,
                            !.data = SkipLimit(query, startIndex, limit),
                            !.count = Len(SkipLimit(query, startIndex, limit)),
                            !.pagination = Pagination(page, limit, startIndex,
                                                      endIndex, total)]
             /\ response' = Resp("getProducts", NULL, 200, 0)
  /\ UNCHANGED QueryUnchanged

Params ==
  {Absent, Junk, Prefixed(2)} \cup {Digits(k) : k \in -1..MaxParam}

\* a request received: its page and limit parameters and what its filters select
Request(page, limit, matches, filterOnly) ==
  [pc |-> "request", page |-> page, limit |-> limit,
   matches |-> matches, filterOnly |-> filterOnly,
   startIndex |-> 0, status |-> 0, data |-> << >>, count |-> 0,
   pagination |-> [next |-> << >>, prev |-> << >>]]

InitQuery ==
  /\ products = EmptyFcn
  /\ reviews = {}
  /\ categories = EmptyFcn
  /\ nextPid = 1
  /\ nextCid = 1
  /\ response = NoResponse
  /\ reqs = EmptyBag
  /\ tree = IdleTree
  /\ query \in {Request(p, l, m, f) :
                  p \in Params, l \in Params, m \in 0..MaxMatches, f \in 0..1}

NextQuery == getProducts

SpecQuery == InitQuery /\ [][NextQuery]_vars

\* C9: the effective page and limit of getProducts are positive integers:
\* an absent, non-numeric, zero or negative parameter falls back to its
\* default without an error, so the offset is never negative and the page
\* size never zero or negative.
C9_PageAndLimitPositive ==
  query.pc = "done" =>
    /\ query.page >= 1
    /\ query.limit >= 1
    /\ query.startIndex >= 0
    /\ query.status = 200

\* the window and the links claimed for page p and limit l over T matches
WindowOf(p, l, T) ==
  LET from == (p - 1) * l + 1
      to == Min(p * l, T)
  IN [i \in 1..Max(0, to - from + 1) |-> from + i - 1]

PageResult(p, l, T) ==
  /\ query.status = 200
  /\ query.data = WindowOf(p, l, T)
  /\ query.count = Len(query.data)
  /\ query.count <= l
  /\ query.pagination.prev = (IF p > 1 THEN <<PageLink(p - 1, l)>> ELSE << >>)
  /\ query.pagination.next = (IF T > p * l THEN <<PageLink(p + 1, l)>> ELSE << >>)

\* C10: a request with page p and limit l over T matches returns the matches
\* at positions (p-1)*l+1 .. p*l (at most l, count = number returned), with
\* prev = {p-1, l} iff p > 1 and next = {p+1, l} iff T > p*l, T counted with
\* the filters of the page query.
C10_PageWindowAndLinks ==
  query.pc = "done" => PageResult(query.page, query.limit, query.matches)

\* The same for the requests whose effective page and limit are positive.
PositivePageWindowAndLinks ==
  (query.pc = "done" /\ query.page >= 1 /\ query.limit >= 1)
    => PageResult(query.page, query.limit, query.matches)

----------------------------------------------------------------------------
(* Categories and products, requests running concurrently.  Every await of *)
(* a handler is one store operation; the handler's code up to its next     *)
(* await runs with it, and other requests' operations may run between any  *)
(* two.  A request between two awaits is held in reqs with its locals.     *)

Pending(op, pc, id, body) == [op |-> op, pc |-> pc, id |-> id, body |-> body]

\* the requests of handler op that have not yet reached their last write
PendingCount(op) ==
  LET S == {req \in InFlight : Has(req, "op") /\ req.op = op}
      Sum[T \in SUBSET S] ==
        IF T = {} THEN 0
        ELSE LET x == CHOOSE y \in T : TRUE IN CopiesIn(x, reqs) + Sum[T \ {x}]
  IN Sum[S]

At(req, op, pc) ==
  /\ req \in InFlight
  /\ Has(req, "op")
  /\ req.op = op
  /\ req.pc = pc

StepUnchanged == <<reviews, tree, query>>

\* deleteCategory: const category = await Category.findById(req.params.id)
deleteCategoryFind(id) ==
  /\ BagCardinality(reqs) < MaxReqs
  /\ LET cid == CastObjectId(id) IN
     IF cid \notin DOMAIN categories
     THEN /\ response' = Reply("deleteCategory", NULL, 404, "NotFound", 0)
          /\ UNCHANGED reqs
     ELSE /\ reqs' = Launch(Pending("deleteCategory", "countProducts", cid, EmptyBody))
          /\ UNCHANGED response
  /\ UNCHANGED <<products, categories, nextPid, nextCid, StepUnchanged>>

\* deleteCategory: await Product.countDocuments({category: category._id})
deleteCategoryCountProducts(req) ==
  /\ At(req, "deleteCategory", "countProducts")
  /\ IF productCount(req.id) > 0
     THEN /\ response' = Reply("deleteCategory", NULL, 400, "HasProducts",
                               productCount(req.id))
          /\ reqs' = Retire(req)
     ELSE /\ reqs' = Retire(req) (+) SetToBag({[req EXCEPT !.pc = "countSubcategories"]})
          /\ UNCHANGED response
  /\ UNCHANGED <<products, categories, nextPid, nextCid, StepUnchanged>>

\* deleteCategory: await Category.countDocuments({parentCategory: category._id})
deleteCategoryCountSubcategories(req) ==
  /\ At(req, "deleteCategory", "countSubcategories")
  /\ IF subcategoryCount(req.id) > 0
     THEN /\ response' = Reply("deleteCategory", NULL, 400, "HasSubcategories",
                               subcategoryCount(req.id))
          /\ reqs' = Retire(req)
     ELSE /\ reqs' = Retire(req) (+) SetToBag({[req EXCEPT !.pc = "deleteOne"]})
          /\ UNCHANGED response
  /\ UNCHANGED <<products, categories, nextPid, nextCid, StepUnchanged>>

\* deleteCategory: await category.deleteOne(), then the 200 reply
deleteCategoryDeleteOne(req) ==
  /\ At(req, "deleteCategory", "deleteOne")
  /\ categories' = [i \in DOMAIN categories \ {req.id} |-> categories[i]]
  /\ response' = Resp("deleteCategory", NULL, 200, 0)
  /\ reqs' = Retire(req)
  /\ UNCHANGED <<products, nextPid, nextCid, StepUnchanged>>

\* createProduct: const category = await Category.findById(req.body.category)
createProductFind(body) ==
  /\ BagCardinality(reqs) < MaxReqs
  /\ nextPid + PendingCount("createProduct") <= MaxProducts
  /\ LET cat == IF Has(body, "category") THEN body.category ELSE NULL IN
     IF cat \notin DOMAIN categories
     THEN /\ response' = Resp("createProduct", NULL, 404, 0)
          /\ UNCHANGED reqs
     ELSE /\ reqs' = Launch(Pending("createProduct", "create", NULL, body))
          /\ UNCHANGED response
  /\ UNCHANGED <<products, categories, nextPid, nextCid, StepUnchanged>>

\* createProduct: await Product.create(req.body), then the 201 reply
createProductCreate(req) ==
  /\ At(req, "createProduct", "create")
  /\ LET doc == Merge(ProductDefaults, req.body) IN
     IF ~ ValidProduct(doc)
     THEN /\ response' = Resp("createProduct", NULL, 500, 0)
          /\ UNCHANGED <<products, nextPid>>
     ELSE /\ products' = [i \in DOMAIN products \cup {nextPid} |->
                            IF i = nextPid THEN doc ELSE products[i]]
          /\ nextPid' = nextPid + 1
          /\ response' = Resp("createProduct", NULL, 201, 0)
  /\ reqs' = Retire(req)
  /\ UNCHANGED <<categories, nextCid, StepUnchanged>>

\* updateProduct: let product = await Product.findById(req.params.id)
updateProductFind(id, body) ==
  /\ BagCardinality(reqs) < MaxReqs
  /\ IF id \notin DOMAIN products
     THEN /\ response' = Resp("updateProduct", NULL, 404, 0)
          /\ UNCHANGED reqs
     ELSE /\ reqs' = Launch(Pending("updateProduct", "update", id, body))
          /\ UNCHANGED response
  /\ UNCHANGED <<products, categories, nextPid, nextCid, StepUnchanged>>

\* updateProduct: await Product.findByIdAndUpdate(id, req.body, {runValidators})
updateProductUpdate(req) ==
  /\ At(req, "updateProduct", "update")
  /\ IF req.id \in DOMAIN products /\ ~ ValidProduct(Merge(products[req.id], req.body))
     THEN /\ response' = Resp("updateProduct", NULL, 500, 0)
          /\ UNCHANGED products
     ELSE /\ products' = FindByIdAndUpdate(products, req.id, req.body)
          /\ response' = Resp("updateProduct", NULL, 200, 0)
  /\ reqs' = Retire(req)
  /\ UNCHANGED <<categories, nextPid, nextCid, StepUnchanged>>

\* createCategory: await Category.create(req.body), then the 201 reply
InsertCategory(body) ==
  /\ categories' = [i \in DOMAIN categories \cup {nextCid} |->
                      IF i = nextCid
                      THEN Merge(CategoryDefaults, CastCategoryBody(body))
                      ELSE categories[i]]
  /\ nextCid' = nextCid + 1
  /\ response' = Resp("createCategory", NULL, 201, 0)

\* createCategory up to its first await: the parent's findById when a parent
\* is sent, the create otherwise
createCategoryFind(body) ==
  /\ BagCardinality(reqs) < MaxReqs
  /\ nextCid + PendingCount("createCategory") <= MaxCategories
  /\ IF ~ SendsParent(body)
     THEN /\ InsertCategory(body)
          /\ UNCHANGED reqs
     ELSE IF CastObjectId(body.parentCategory) \notin DOMAIN categories
     THEN /\ response' = Reply("createCategory", NULL, 404, "ParentNotFound", 0)
          /\ UNCHANGED <<categories, nextCid, reqs>>
     ELSE /\ reqs' = Launch(Pending("createCategory", "create", NULL, body))
          /\ UNCHANGED <<categories, nextCid, response>>
  /\ UNCHANGED <<products, nextPid, StepUnchanged>>

createCategoryCreate(req) ==
  /\ At(req, "createCategory", "create")
  /\ InsertCategory(req.body)
  /\ reqs' = Retire(req)
  /\ UNCHANGED <<products, nextPid, StepUnchanged>>

\* updateCategory: let category = await Category.findById(req.params.id), and
\* the comparison of the two id strings that follows it
updateCategoryFind(id, body) ==
  /\ BagCardinality(reqs) < MaxReqs
  /\ LET cid == CastObjectId(id) IN
     IF cid \notin DOMAIN categories
     THEN /\ response' = Reply("updateCategory", NULL, 404, "NotFound", 0)
          /\ UNCHANGED reqs
     ELSE IF SendsParent(body) /\ SelfParentRequest(id, body)
     THEN /\ response' = Reply("updateCategory", NULL, 400, "OwnParent", 0)
          /\ UNCHANGED reqs
     ELSE /\ reqs' = Launch(Pending("updateCategory",
                                    IF SendsParent(body) THEN "findParent" ELSE "update",
                                    cid, body))
          /\ UNCHANGED response
  /\ UNCHANGED <<products, categories, nextPid, nextCid, StepUnchanged>>

\* updateCategory: const parent = await Category.findById(req.body.parentCategory)
updateCategoryFindParent(req) ==
  /\ At(req, "updateCategory", "findParent")
  /\ IF CastObjectId(req.body.parentCategory) \notin DOMAIN categories
     THEN /\ response' = Reply("updateCategory", NULL, 404, "ParentNotFound", 0)
          /\ reqs' = Retire(req)
     ELSE /\ reqs' = Retire(req) (+) SetToBag({[req EXCEPT !.pc = "update"]})
          /\ UNCHANGED response
  /\ UNCHANGED <<products, categories, nextPid, nextCid, StepUnchanged>>

\* updateCategory: await Category.findByIdAndUpdate(id, req.body, ...)
updateCategoryUpdate(req) ==
  /\ At(req, "updateCategory", "update")
  /\ categories' = FindByIdAndUpdate(categories, req.id, CastCategoryBody(req.body))
  /\ response' = Resp("updateCategory", NULL, 200, 0)
  /\ reqs' = Retire(req)
  /\ UNCHANGED <<products, nextPid, nextCid, StepUnchanged>>

NextInterleaved ==
  \/ \E id \in PathIds : deleteCategoryFind(id)
  \/ \E req \in InFlight : deleteCategoryCountProducts(req)
  \/ \E req \in InFlight : deleteCategoryCountSubcategories(req)
  \/ \E req \in InFlight : deleteCategoryDeleteOne(req)
  \/ \E b \in PlainBodies : createProductFind(b)
  \/ \E req \in InFlight : createProductCreate(req)
  \/ \E p \in 1..MaxProducts, b \in PlainBodies : updateProductFind(p, b)
  \/ \E req \in InFlight : updateProductUpdate(req)
  \/ \E b \in LowerBodies : createCategoryFind(b)
  \/ \E req \in InFlight : createCategoryCreate(req)
  \/ \E id \in PathIds, b \in LowerBodies : updateCategoryFind(id, b)
  \/ \E req \in InFlight : updateCategoryFindParent(req)
  \/ \E req \in InFlight : updateCategoryUpdate(req)

SpecInterleaved == Init /\ [][NextInterleaved]_vars

\* C12: deleting a category never orphans a dependent: in every state
\* reachable by interleaving the store operations of deleteCategory,
\* createProduct, updateProduct, createCategory and updateCategory, every
\* product's category and every category's non-null parentCategory is a
\* category that exists.
C12_NoOrphans ==
  /\ \A p \in DOMAIN products : products[p].category \in DOMAIN categories
  /\ \A c \in DOMAIN categories :
       categories[c].parentCategory # NULL
         => categories[c].parentCategory \in DOMAIN categories

----------------------------------------------------------------------------
(* calculateAverageRating among other writers: reviews are added and       *)
(* removed, products created and deleted, while the two awaits of the      *)
(* aggregator run at any later moment, also after its product is gone.     *)

NextAggregator ==
  \/ \E b \in PlainBodies : createProduct(b)
  \/ \E p \in 1..MaxProducts : deleteProduct(p)
  \/ \E p \in DOMAIN products : beginAddReview(p, 1, MaxRating)
  \/ \E old \in reviews : beginDeleteReview(old)
  \/ \E req \in InFlight : hookAggregate(req)
  \/ \E req \in InFlight : hookUpdateProduct(req)

SpecAggregator == InitSeeded /\ [][NextAggregator]_vars

AggregatorPaths == {"rating", "numReviews"}

\* the aggregate read changes no document
AggregateFrame ==
  \A req \in InFlight :
    hookAggregate(req) => UNCHANGED <<products, reviews, categories>>

\* the write changes at most rating and numReviews of the product it names
UpdateFrame ==
  \A req \in InFlight :
    hookUpdateProduct(req) =>
      /\ UNCHANGED <<reviews, categories>>
      /\ DOMAIN products' = DOMAIN products
      /\ \A q \in DOMAIN products :
           /\ DOMAIN products'[q] = DOMAIN products[q]
           /\ q # req.product => products'[q] = products[q]
           /\ \A k \in DOMAIN products[q] \ AggregatorPaths :
                products'[q][k] = products[q][k]
      /\ req.product \notin DOMAIN products =>
           /\ products' = products
           /\ response'.status < 400
           /\ response'.error = ""

----------------------------------------------------------------------------
(* Stock: products created and updated with or without a stock, and any    *)
(* sequence of updateStock requests between the other product writes.      *)

\* the stock a create body sends: none, a negative one, a positive one
StockBodies == {[category |-> 1] @@ Opt("stock", st) : st \in Options({-1, 1})}

\* the quantities sent: negative, zero, positive, and more than any stock
Quantities == {-(MaxStock + 1), -1, 0, 1, MaxStock + 1}

\* the operation names sent: the three the handler knows and one it does not
OperationNames == StockOperations \cup {"multiply"}

NextStock ==
  \/ \E b \in StockBodies : createProduct(b)
  \/ \E p \in 1..MaxProducts, b \in StockBodies : updateProduct(p, b)
  \/ \E p \in 1..MaxProducts : deleteProduct(p)
  \/ \E p \in 1..MaxProducts, q \in Quantities, o \in OperationNames :
       updateStock(p, q, o)

SpecStock == InitSeeded /\ [][NextStock]_vars

StockNonNegative == \A p \in DOMAIN products : products[p].stock >= 0

\* what one updateStock request does
StockStep ==
  \A p \in 1..MaxProducts, q \in Quantities, o \in OperationNames :
    updateStock(p, q, o) =>
      /\ response'.op = "updateStock"
      /\ o \notin StockOperations => response'.status = 400
      /\ response'.status >= 400 => products' = products
      /\ (o = "subtract" /\ p \in DOMAIN products /\ q > products[p].stock) =>
           /\ response'.status = 200
           /\ products'[p].stock = 0

\* C14: after any sequence of updateStock operations with any operation
\* name and any integer quantity, every product's stored stock is >= 0: a
\* subtract of more than the current stock stores 0, an operation name other
\* than add, subtract or set is refused with status 400, and every refused
\* or failed updateStock leaves the stored stock unchanged.
C14_StockNeverNegative == []StockNonNegative /\ [][StockStep]_vars

\* After a successful updateStock one product is at stock 0 and another at
\* the largest stock.
C14_Witness ==
  /\ response.op = "updateStock"
  /\ response.status = 200
  /\ \E p \in DOMAIN products : products[p].stock = 0
  /\ \E p \in DOMAIN products : products[p].stock = MaxStock

====
